---- MODULE Spec2Model ----
(***************************************************************************)
(* Model of ebcommander.py: the EB Command scraping client.  The crawl     *)
(* builds the project / distribution / version / file tree from the pages  *)
(* the server returns, one request at a time; filter() and files() then    *)
(* work on that tree.  Python lists are objects shared by reference, so    *)
(* the model keeps every subentries list in a heap (lists) and an entry    *)
(* holds the index of its list: a shallow copy of an entry is the same     *)
(* record, pointing at the same list.  download(), Size.parse,             *)
(* EbCommandSublink() and _filter_duplicates are also run on their own,    *)
(* each under a specification of its own over bounded inputs.              *)
(***************************************************************************)
EXTENDS Integers, Sequences, FiniteSets, TLC

\* Bounds of the model.
MaxAnchors == 5
MaxFolders == 4
MaxDownloads == 2
MaxText == 5
MaxCells == 3

\* Optional values: an absent value (Python None, or an attribute that was
\* never set) is the empty sequence, a present one a one-element sequence.
None == <<>>
Some(x) == <<x>>

\* ------------------------------------------------------------------------
\* Strings and regular expressions.  A string is a sequence of characters;
\* a pattern is a sequence of tokens, each a literal character with an
\* optional star.  ReMatch is re.match: the pattern has to match at the
\* start of the string, not up to its end.

Lit(c) == [ch |-> c, star |-> FALSE]
Star(c) == [ch |-> c, star |-> TRUE]

\* A faulty variant of PATTERN_ANY_CHAR: one dot or more.
PatternSomeDots == <<Lit("."), Star(".")>>

\* r'\.*': any number of dots, which matches at the start of every string.
PATTERN_ANY_CHAR == <<Star(".")>>

RECURSIVE ReMatch(_, _)
ReMatch(pattern, s) ==
    IF pattern = <<>> THEN TRUE
    ELSE LET t == Head(pattern) IN
         IF t.star
         THEN \/ ReMatch(Tail(pattern), s)
              \/ (s # <<>> /\ Head(s) = t.ch /\ ReMatch(pattern, Tail(s)))
         ELSE s # <<>> /\ Head(s) = t.ch /\ ReMatch(Tail(pattern), Tail(s))

Digits == {"1", "2"}

\* re.match(r'\d+', value): at least one leading digit.
MatchPatternId(value) == value # <<>> /\ Head(value) \in Digits

DigitValue(c) == IF c = "1" THEN 1 ELSE 2

RECURSIVE ParseInt(_, _)
\* int(value) for a string of digits, most significant first.
ParseInt(value, acc) ==
    IF value = <<>> THEN acc
    ELSE ParseInt(Tail(value), 10 * acc + DigitValue(Head(value)))

\* ------------------------------------------------------------------------
\* Sizes.

Letters == {"B", "K", "M", "G", "T", "b", "k", "m", "g", "t", "x", "X"}

\* The characters \w matches, and whitespace.
WordChars == Digits \cup Letters \cup {"_"}
Whitespace == {" "}

\* str.upper() of a character.
Upper(c) ==
    CASE c = "b" -> "B" [] c = "k" -> "K" [] c = "m" -> "M" [] c = "g" -> "G"
      [] c = "t" -> "T" [] c = "x" -> "X" [] OTHER -> c

AllIn(t, S) == \A n \in 1..Len(t) : t[n] \in S

Power10(n) == IF n = 0 THEN 1 ELSE IF n = 1 THEN 10 ELSE IF n = 2 THEN 100
              ELSE IF n = 3 THEN 1000 ELSE IF n = 4 THEN 10000 ELSE 100000

\* float() of digits with an optional fraction (a dot and digits), as the
\* quotient num / den.
ParseFloat(whole, fraction) ==
    [num |-> ParseInt(whole \o Tail(fraction), 0), den |-> Power10(Len(fraction) - 1)]
\* The fraction of "1.5" is ".5"; an absent fraction is the empty string.
NoFraction == <<".">>

\* re.match(r'^((\d+)(\.\d+)?)(\w+)$', t): the ways to cut t into digits,
\* an optional dot with digits, and word characters up to the end, as
\* <<i, j>>, the lengths of the first two parts (j = 0: no fraction).
SizeSplits(t) ==
    {p \in (1..Len(t)) \X (0..Len(t)) :
        /\ p[1] + p[2] < Len(t)
        /\ AllIn(SubSeq(t, 1, p[1]), Digits)
        /\ p[2] # 0 => /\ p[2] >= 2
                       /\ t[p[1] + 1] = "."
                       /\ AllIn(SubSeq(t, p[1] + 2, p[1] + p[2]), Digits)
        /\ AllIn(SubSeq(t, p[1] + p[2] + 1, Len(t)), WordChars)}

\* The cut the matcher finds first: \d+ is greedy, and the fraction is tried
\* at its longest before it is tried shorter or left out.
SizeMatch(t) ==
    CHOOSE p \in SizeSplits(t) :
        \A q \in SizeSplits(t) : q[1] < p[1] \/ (q[1] = p[1] /\ q[2] <= p[2])

\* The table of first characters and units, in the order it is searched.
UnitTable == << <<"B", "BYTE">>, <<"K", "KILO_BYTE">>, <<"M", "MEGA_BYTE">>,
                <<"G", "GIGA_BYTE">>, <<"T", "TERRA_BYTE">> >>

\* int(value) succeeds on a string of digits and raises ValueError on any
\* other.
IsInt(value) == value # <<>> /\ AllIn(value, Digits)

\* The unit of the first table entry with the character, None if none has.
UnitOf(first_char) ==
    LET hits == SelectSeq(UnitTable, LAMBDA entry : first_char = entry[1])
    IN IF hits = <<>> THEN None ELSE Some(hits[1][2])

\* s without its whitespace: re.sub('\s+', '', s.strip()).
Stripped(s) == SelectSeq(s, LAMBDA c : c \notin Whitespace)

\* The first character of the unit, size.group(4)[0], of a match.
UnitChar(t) == t[SizeMatch(t)[1] + SizeMatch(t)[2] + 1]

\* The Size of a match, given the character the unit is looked up with.
SizeOfMatch(t, first_char) ==
    LET m == SizeMatch(t)
        value == ParseFloat(SubSeq(t, 1, m[1]),
                     IF m[2] = 0 THEN NoFraction
                     ELSE SubSeq(t, m[1] + 1, m[1] + m[2]))
        unit == UnitOf(first_char)
    IN IF unit # None THEN Some([value |-> value, unit |-> unit[1]]) ELSE None

\* A faulty variant of Size.parse: the first character of the unit is not
\* brought to upper case.
SizeParseCaseSensitive(s) ==
    LET t == Stripped(s) IN
    IF SizeSplits(t) = {} THEN None ELSE SizeOfMatch(t, UnitChar(t))

\* Size.parse: the Size of a string, None if it has none.
Size_parse(s) ==
    LET t == Stripped(s) IN
    IF SizeSplits(t) = {} THEN None ELSE SizeOfMatch(t, Upper(UnitChar(t)))

\* ------------------------------------------------------------------------
\* Inputs: what the server can put on a page.

Patterns == {PATTERN_ANY_CHAR, <<Lit("a")>>}

_PATH_LOGIN == "login.pl"
_PATH_DEPLOY == "deploy.pl"
_PATH_ATTACHMENT == "attachment.pl"

TimeCell == [kind |-> "time", val |-> 1]
SizeCell == [kind |-> "size", val |-> 1]
TextCell == [kind |-> "text", val |-> 0]

Anchor(path, params, text, tr) ==
    [path |-> path, params |-> params, text |-> text, tr |-> tr]

\* A link every page may carry and no level accepts.  The pages also hold
\* links whose id starts with a digit and goes on with another character.
ForeignAnchor == Anchor(_PATH_LOGIN, [Do |-> <<"L">>], <<"b">>, None)

\* The (id, text) pairs of the links a page can hold, the table row of a
\* file link that supplies both cells, and rows that do not.
Labels == {<<<<"1">>, <<"a", "b">>>>, <<<<"2">>, <<"b">>>>}
GoodRow == Some(<<TextCell, TimeCell, SizeCell>>)
BadRows == {None, Some(<<TimeCell>>), Some(<<SizeCell>>)}

\* The anchors a page of the given level can hold (level 0: the page
\* listing the projects, ..., level 3: the page listing a version's files).
AnchorPool(level) ==
    {ForeignAnchor} \cup
    CASE level = 0 ->
           {Anchor(_PATH_DEPLOY, [ProjectId |-> l[1]], l[2], None) : l \in Labels}
           \cup {Anchor(_PATH_DEPLOY, [ProjectId |-> <<"1", "x">>], <<"b">>, None)}
      [] level = 1 ->
           {Anchor(_PATH_DEPLOY, [Do |-> <<"DISTR">>, Id |-> l[1]], l[2], None) :
               l \in Labels}
      [] level = 2 ->
           {Anchor(_PATH_DEPLOY, [Do |-> <<"VERSION">>, Id |-> l[1]], l[2], None) :
               l \in Labels}
      [] OTHER ->
           {Anchor(_PATH_ATTACHMENT, [Do |-> <<"GET">>, Id |-> l[1]], l[2], GoodRow) :
               l \in Labels}
           \cup {Anchor(_PATH_ATTACHMENT, [Do |-> <<"GET">>, Id |-> <<"1">>], <<"b">>, r) :
                    r \in BadRows}
           \cup {Anchor(_PATH_ATTACHMENT, [Do |-> <<"GET">>, Id |-> <<"1", "x">>],
                         <<"b">>, GoodRow)}

SeqsUpTo(S, n) == UNION {[1..k -> S] : k \in 0..n}

\* ------------------------------------------------------------------------
\* Links.

RECURSIVE ReadCells(_, _)
\* The loop over the cells of the anchor's table row: a cell that matches
\* the timestamp pattern sets upload_time, one that parses as a size sets
\* size; sublink starts with neither attribute set.
ReadCells(cells, sublink) ==
    IF cells = <<>> THEN sublink
    ELSE LET table_data == Head(cells) IN
         ReadCells(Tail(cells),
             IF table_data.kind = "time"
             THEN [sublink EXCEPT !.upload_time = Some(table_data.val)]
             ELSE IF table_data.kind = "size"
             THEN [sublink EXCEPT !.size = Some(table_data.val)]
             ELSE sublink)

\* Sublink.__init__: the text, path and query parameters of the anchor.
Sublink(tag) ==
    [description |-> tag.text, path |-> tag.path, params |-> tag.params,
     upload_time |-> None, size |-> None]

\* EbCommandSublink.__init__: upload_time and size are attributes set only
\* when a cell of the enclosing row supplies them (None here: never set).
EbCommandSublink(tag) ==
    IF tag.tr = None THEN Sublink(tag)
    ELSE ReadCells(tag.tr[1], Sublink(tag))

IsPrefix(p, s) == Len(p) <= Len(s) /\ SubSeq(s, 1, Len(p)) = p

\* A condition value is the id pattern \d+ or a literal DO type; both are
\* tested with re.match, from the start of the value.
_PATTERN_ID == <<"\\d+">>
ConditionMatch(value, param) ==
    IF value = _PATTERN_ID THEN MatchPatternId(param) ELSE IsPrefix(value, param)

\* _parse_sublink: the sublink, or None when a condition is not met.
_parse_sublink(tag, path, conditions) ==
    LET sublink == EbCommandSublink(tag)
        ok == \A n \in 1..Len(conditions) :
                 /\ sublink.path = path
                 /\ conditions[n].key \in DOMAIN sublink.params
                 /\ ConditionMatch(conditions[n].value, sublink.params[conditions[n].key])
    IN IF ok THEN Some(sublink) ELSE None

RECURSIVE _get_sublinks(_, _, _)
\* _get_sublinks on a parsed page: the accepted anchors, in page order.
_get_sublinks(anchors, path, conditions) ==
    IF anchors = <<>> THEN <<>>
    ELSE LET sublink == _parse_sublink(Head(anchors), path, conditions) IN
         sublink \o _get_sublinks(Tail(anchors), path, conditions)

Cond(k, v) == [key |-> k, value |-> v]

\* The path and condition set of the links looked for on a page.
LevelPath(level) == IF level = 3 THEN _PATH_ATTACHMENT ELSE _PATH_DEPLOY
LevelConditions(level) ==
    CASE level = 0 -> <<Cond("ProjectId", _PATTERN_ID)>>
      [] level = 1 -> <<Cond("Do", <<"DISTR">>), Cond("Id", _PATTERN_ID)>>
      [] level = 2 -> <<Cond("Do", <<"VERSION">>), Cond("Id", _PATTERN_ID)>>
      [] OTHER -> <<Cond("Do", <<"GET">>), Cond("Id", _PATTERN_ID)>>
LevelIdKey(level) == IF level = 0 THEN "ProjectId" ELSE "Id"

\* ------------------------------------------------------------------------
\* Deduplication.

DelAt(s, i) == SubSeq(s, 1, i - 1) \o SubSeq(s, i + 1, Len(s))

RECURSIVE FilterDuplicatesFrom(_, _)
\* The loop of _filter_duplicates, from index i down to the first entry:
\* an entry whose id occurs more than once in the list is deleted.
FilterDuplicatesFrom(folders, i) ==
    IF i = 0 THEN folders
    ELSE LET filtered == SelectSeq(folders, LAMBDA x : x.id = folders[i].id)
         IN FilterDuplicatesFrom(
                IF Len(filtered) > 1 THEN DelAt(folders, i) ELSE folders, i - 1)

\* Faulty variants of _filter_duplicates: no deduplication at all, and a
\* scan that keeps the last entry of each id instead of the first.
NoFilterDuplicates(folders) == folders

RECURSIVE KeepLastFrom(_, _)
KeepLastFrom(folders, i) ==
    IF i > Len(folders) THEN folders
    ELSE LET filtered == SelectSeq(folders, LAMBDA x : x.id = folders[i].id)
         IN IF Len(filtered) > 1 THEN KeepLastFrom(DelAt(folders, i), i)
            ELSE KeepLastFrom(folders, i + 1)
KeepLastFilterDuplicates(folders) == KeepLastFrom(folders, 1)

_filter_duplicates(folders) == FilterDuplicatesFrom(folders, Len(folders))

\* ------------------------------------------------------------------------
\* State.

VARIABLES
    status,        \* "start", "crawl", "ready" (constructor returned) or "raised"
    stack,         \* the _get_* calls in progress, innermost last
    lists,         \* the heap of subentries lists; an entry holds an index
    command,       \* _projects of the crawled client
    requests,      \* the requests issued so far, in order
    served,        \* anchors the server has put on pages during the crawl
    last_response, \* kind of the response to the latest request
    raised,        \* the exception that ended the constructor, "" if none
    fresh,         \* lists as the crawl left them (a never-filtered client)
    _session,      \* the session of the client, None before the first request
    filtered,      \* _projects of the client the latest filter() returned
    listing,       \* what files() returned, called after the latest filter()
    folders,       \* argument of the latest _filter_duplicates call
    deduplicated,  \* its result, and the result of deduplicating that again
    downloading,   \* the records download() has still to process, None: no call
    filename_only, \* the filename_only argument of that call
    written,       \* the names of the files download() has written, in order
    size_text,     \* argument of the latest Size.parse call
    parsed,        \* its result
    row,           \* the anchor given to the latest EbCommandSublink()
    link           \* the sublink it built

vars == <<status, stack, lists, command, requests, served, last_response, raised,
          fresh, _session, filtered, listing, folders, deduplicated, downloading,
          filename_only, written, size_text, parsed, row, link>>

crawl_vars == <<status, stack, lists, command, requests, served, last_response,
                raised, fresh, _session>>
dedup_vars == <<folders, deduplicated>>
client_vars == <<filtered, listing>>
download_vars == <<downloading, filename_only, written>>
size_vars == <<size_text, parsed>>
row_vars == <<row, link>>

\* What a crawl, filter() and files() leave alone.
other_vars == <<dedup_vars, download_vars, size_vars, row_vars>>

\* ------------------------------------------------------------------------
\* Requests.

\* What the server may answer to the request for a page of the given level:
\* a status other than 200, a 200 that is not HTML, or an HTML page.
Responses(level) ==
    {[kind |-> "fail", anchors |-> <<>>], [kind |-> "bytes", anchors |-> <<>>]} \cup
    {[kind |-> "html", anchors |-> a] :
        a \in SeqsUpTo(AnchorPool(level), MaxAnchors - served)}

\* _request: the parsed page for a 200 HTML response, the raw content for
\* another 200 response ("empty": content of no bytes), None otherwise.
_request(resp) ==
    IF resp.kind = "fail" THEN [type |-> "None", anchors |-> <<>>]
    ELSE IF resp.kind = "html" THEN [type |-> "soup", anchors |-> resp.anchors]
    ELSE IF resp.kind = "empty" THEN [type |-> "empty", anchors |-> <<>>]
    ELSE [type |-> "bytes", anchors |-> <<>>]

\* The truth value of what _request returned, as "if content:" takes it:
\* None and content of no bytes are false, a parsed page is true.
Truthy(content) == content.type \in {"soup", "bytes"}

\* The session a request is sent on: _request creates one when the client
\* has none (a session is named by the number of the request that made it).
SessionOf == IF _session = None THEN Len(requests) + 1 ELSE _session[1]

\* A faulty variant of the GET of _request: the request is sent as a POST.
Post(data) ==
    [post |-> TRUE, path |-> _PATH_DEPLOY, data |-> data, session |-> SessionOf]

Get(data) ==
    [post |-> FALSE, path |-> _PATH_DEPLOY, data |-> data, session |-> SessionOf]
LoginPost ==
    [post |-> TRUE, path |-> _PATH_LOGIN, data |-> [Do |-> "LOGIN"],
     session |-> SessionOf]

\* The GET data of the page listing the children of an entry.
ChildrenQuery(level, id) ==
    CASE level = 1 -> [ProjectId |-> id]
      [] level = 2 -> [Do |-> "DISTR", Id |-> id]
      [] OTHER -> [Do |-> "VERSION", Id |-> id]

\* ------------------------------------------------------------------------
\* Entries.

\* EbCommandProject, EbCommandDistribution and EbCommandVersion.__init__:
\* subentries is a new, empty list, here the list at index ref of the heap,
\* and the typed attribute (distributions, versions, files) is that list.
EbCommandEntry(sublink, id, ref) ==
    [sublink |-> sublink, description |-> sublink.description, id |-> id,
     subentries |-> ref, typed |-> ref]

\* EbCommandFile.__init__ reads sublink.upload_time, then sublink.size.
EbCommandFile(sublink, id, ref) ==
    [sublink |-> sublink, description |-> sublink.description, id |-> id,
     subentries |-> ref, upload_time |-> sublink.upload_time[1],
     size |-> sublink.size[1]]

\* The attribute whose read fails in EbCommandFile.__init__, "" if none.
FileAttributeError(sublink) ==
    IF sublink.upload_time = None THEN "upload_time"
    ELSE IF sublink.size = None THEN "size"
    ELSE ""

\* What EbCommandFile(sublink, int(sublink.params['Id'])) raises, "" if
\* nothing: the argument is converted before the constructor runs.
FileError(sublink) ==
    IF ~IsInt(sublink.params[LevelIdKey(3)]) THEN "int"
    ELSE FileAttributeError(sublink)

Frame(level, owner, pending) ==
    [level |-> level, owner |-> owner, pending |-> pending, acc |-> <<>>]

Top == stack[Len(stack)]
Below == SubSeq(stack, 1, Len(stack) - 1)

\* An exception leaves the constructor: there is no client, and the entries
\* built so far are dropped.
Raise(what) ==
    /\ status' = "raised"
    /\ raised' = what
    /\ stack' = <<>>
    /\ lists' = <<>>
    /\ served' = 0
    /\ UNCHANGED <<command, fresh>>

\* No download() call, no Size.parse call and no EbCommandSublink() on its
\* own has been made.
NoDownload == downloading = None /\ filename_only = FALSE /\ written = <<>>
NoSize == size_text = <<>> /\ parsed = <<>>
NoRow == row = None /\ link = None

Init ==
    /\ status = "start"
    /\ stack = <<>>
    /\ lists = <<>>
    /\ command = <<>>
    /\ requests = <<>>
    /\ served = 0
    /\ last_response = ""
    /\ raised = ""
    /\ fresh = <<>>
    /\ _session = None
    /\ filtered = None
    /\ listing = None
    /\ folders = <<>>
    /\ deduplicated = <<>>
    /\ NoDownload
    /\ NoSize
    /\ NoRow

\* _get_projects up to its loop: the login POST, and the project links of
\* the page it returns.
_get_projects ==
    /\ status = "start"
    /\ \E resp \in Responses(0) :
        LET html == _request(resp) IN
        /\ requests' = Append(requests, LoginPost)
        /\ _session' = Some(SessionOf)
        /\ last_response' = resp.kind
        /\ IF html.type # "soup"
           THEN Raise("find_all")
           ELSE /\ served' = served + Len(resp.anchors)
                /\ lists' = lists
                /\ stack' = <<Frame(0, None,
                              _get_sublinks(html.anchors, LevelPath(0), LevelConditions(0)))>>
                /\ status' = "crawl"
                /\ UNCHANGED <<command, raised, fresh>>
    /\ UNCHANGED <<client_vars, other_vars>>

\* One pass of the loop of _get_projects or _get_distributions up to the
\* loop of the call it makes: the entry of the next link is created and the
\* page listing its children is requested.
Descend(level) ==
    /\ status = "crawl"
    /\ Top.level = level
    /\ Top.pending # <<>>
    /\ IF ~IsInt(Head(Top.pending).params[LevelIdKey(level)])
       THEN Raise("int") /\ UNCHANGED <<requests, last_response, _session>>
       ELSE \E resp \in Responses(level + 1) :
        LET sublink == Head(Top.pending)
            entry == EbCommandEntry(sublink,
                         ParseInt(sublink.params[LevelIdKey(level)], 0), Len(lists) + 1)
            html == _request(resp)
        IN
        /\ requests' = Append(requests, Get(ChildrenQuery(level + 1, entry.id)))
        /\ _session' = Some(SessionOf)
        /\ last_response' = resp.kind
        /\ IF html.type # "soup"
           THEN Raise("find_all")
           ELSE /\ served' = served + Len(resp.anchors)
                /\ lists' = Append(lists, <<>>)
                /\ stack' = Append(Append(Below, [Top EXCEPT !.pending = Tail(@)]),
                               Frame(level + 1, Some(entry),
                                   _get_sublinks(html.anchors, LevelPath(level + 1),
                                       LevelConditions(level + 1))))
                /\ UNCHANGED <<status, command, raised, fresh>>
    /\ UNCHANGED <<client_vars, other_vars>>

_get_distributions == Descend(0)
_get_versions == Descend(1)

RECURSIVE FilesOf(_, _)
\* The loop of _get_files: one EbCommandFile per link, each with its own
\* (empty) subentries list, from heap index ref on.
FilesOf(sublinks, ref) ==
    IF sublinks = <<>> THEN <<>>
    ELSE <<EbCommandFile(Head(sublinks),
               ParseInt(Head(sublinks).params[LevelIdKey(3)], 0), ref)>>
         \o FilesOf(Tail(sublinks), ref + 1)

\* One pass of the loop of _get_versions: the version of the next link is
\* created, _get_files fetches its page and builds and deduplicates the
\* files, and add_files puts them into the version, which joins the
\* versions collected.
_get_files ==
    /\ status = "crawl"
    /\ Top.level = 2
    /\ Top.pending # <<>>
    /\ \E resp \in Responses(3) :
        LET sublink == Head(Top.pending)
            version == EbCommandEntry(sublink,
                           ParseInt(sublink.params[LevelIdKey(2)], 0), Len(lists) + 1)
            html == _request(resp)
            sublinks == _get_sublinks(html.anchors, LevelPath(3), LevelConditions(3))
            bad == SelectSeq(sublinks, LAMBDA x : FileError(x) # "")
            found == _filter_duplicates(FilesOf(sublinks, Len(lists) + 2))
        IN
        /\ IF ~IsInt(sublink.params[LevelIdKey(2)])
           THEN UNCHANGED <<requests, last_response, _session>>
           ELSE /\ requests' = Append(requests, Get(ChildrenQuery(3, version.id)))
                /\ _session' = Some(SessionOf)
                /\ last_response' = resp.kind
        /\ IF ~IsInt(sublink.params[LevelIdKey(2)])
           THEN Raise("int")
           ELSE IF html.type # "soup"
           THEN Raise("find_all")
           ELSE IF bad # <<>>
           THEN Raise(FileError(bad[1]))
           ELSE /\ served' = served + Len(resp.anchors)
                /\ lists' = Append(lists, found) \o [n \in 1..Len(sublinks) |-> <<>>]
                /\ stack' = Append(Below, [Top EXCEPT !.pending = Tail(@),
                                                      !.acc = Append(@, version)])
                /\ UNCHANGED <<status, command, raised, fresh>>
    /\ UNCHANGED <<client_vars, other_vars>>

\* The end of _get_versions or _get_distributions: the collected entries
\* are deduplicated and returned, the caller adds them to the entry they
\* belong to and appends that entry to its own collection.
Return(level) ==
    /\ status = "crawl"
    /\ Top.level = level
    /\ Top.pending = <<>>
    /\ LET owner == Top.owner[1]
           result == _filter_duplicates(Top.acc)
           caller == stack[Len(stack) - 1]
       IN
       /\ lists' = [lists EXCEPT ![owner.subentries] = @ \o result]
       /\ stack' = Append(SubSeq(stack, 1, Len(stack) - 2),
                          [caller EXCEPT !.acc = Append(@, owner)])
    /\ UNCHANGED <<status, command, requests, served, last_response, raised, fresh,
                   _session, client_vars, other_vars>>

ReturnVersions == Return(2)
ReturnDistributions == Return(1)

\* The end of _get_projects and of the constructor: _projects is the
\* deduplicated list of projects.
ReturnProjects ==
    /\ status = "crawl"
    /\ Top.level = 0
    /\ Top.pending = <<>>
    /\ command' = _filter_duplicates(Top.acc)
    /\ stack' = <<>>
    /\ status' = "ready"
    /\ fresh' = lists
    /\ served' = 0
    /\ UNCHANGED <<lists, requests, last_response, raised, _session, client_vars,
                   other_vars>>

\* ------------------------------------------------------------------------
\* Filtering and flattening.  A filter call returns its result together
\* with the heap as the call leaves it.

RECURSIVE EbCommandEntry_filter(_, _, _)
RECURSIVE FilterSubentries(_, _, _, _)

\* The loop of EbCommandEntry.filter over the subentries not yet visited:
\* with more than one pattern the subentry is replaced by its own filter's
\* result; it is kept when that is not None and its description matches the
\* first pattern.
FilterSubentries(rest, subs_patterns, heap, subentries) ==
    IF rest = <<>> THEN [subentries |-> subentries, heap |-> heap]
    ELSE LET r == IF Len(subs_patterns) > 1
                  THEN EbCommandEntry_filter(Head(rest), Tail(subs_patterns), heap)
                  ELSE [entry |-> Some(Head(rest)), heap |-> heap]
             keep == /\ r.entry # None
                     /\ ReMatch(subs_patterns[1], r.entry[1].description)
         IN FilterSubentries(Tail(rest), subs_patterns, r.heap,
                IF keep THEN Append(subentries, r.entry[1]) ELSE subentries)

\* A faulty variant of EbCommandEntry.filter: the copy is returned even when
\* no subentry is left.
EntryFilterKeepsEmpty(self, subs_patterns, heap) ==
    LET r == FilterSubentries(heap[self.subentries], subs_patterns, heap, <<>>)
    IN [entry |-> Some(self),
        heap |-> IF Len(subs_patterns) > 0
                 THEN [r.heap EXCEPT ![self.subentries] = r.subentries]
                 ELSE heap]

\* A faulty variant of EbCommandEntry.filter: the kept subentries are
\* assigned to the copy as a new list (self_copy.subentries = subentries).
EntryFilterRebinds(self, subs_patterns, heap) ==
    LET r == FilterSubentries(heap[self.subentries], subs_patterns, heap, <<>>)
        after == IF Len(subs_patterns) > 0 THEN Append(r.heap, r.subentries) ELSE heap
        self_copy == IF Len(subs_patterns) > 0
                     THEN [self EXCEPT !.subentries = Len(after)]
                     ELSE self
    IN [entry |-> IF Len(after[self_copy.subentries]) > 0 THEN Some(self_copy) ELSE None,
        heap |-> after]

\* EbCommandEntry.filter.  self_copy is a shallow copy: its subentries is
\* the list of self, which clear() and extend() refill in place.
EbCommandEntry_filter(self, subs_patterns, heap) ==
    LET self_copy == self
        r == FilterSubentries(heap[self_copy.subentries], subs_patterns, heap, <<>>)
        after == IF Len(subs_patterns) > 0
                 THEN [r.heap EXCEPT ![self_copy.subentries] = r.subentries]
                 ELSE heap
    IN [entry |-> IF Len(after[self_copy.subentries]) > 0 THEN Some(self_copy) ELSE None,
        heap |-> after]

RECURSIVE FilterProjects(_, _, _, _)
\* The loop of EbCommand.filter over the projects not yet visited.
FilterProjects(rest, patterns, heap, projects) ==
    IF rest = <<>> THEN [projects |-> projects, heap |-> heap]
    ELSE IF ReMatch(patterns[1], Head(rest).description)
    THEN LET r == EbCommandEntry_filter(Head(rest), Tail(patterns), heap) IN
         FilterProjects(Tail(rest), patterns, r.heap,
             IF r.entry # None THEN Append(projects, r.entry[1]) ELSE projects)
    ELSE FilterProjects(Tail(rest), patterns, heap, projects)

\* A faulty variant of EbCommand.filter: the project pattern is not tested.
EbCommandFilterAnyProject(_projects, patterns, heap) ==
    FilterProjects(_projects, <<PATTERN_ANY_CHAR>> \o Tail(patterns), heap, <<>>)

\* EbCommand.filter on the client whose _projects is given; patterns are
\* the project, distribution, version and file pattern.
EbCommand_filter(_projects, patterns, heap) ==
    FilterProjects(_projects, patterns, heap, <<>>)

RECURSIVE Concat(_)
Concat(ss) == IF ss = <<>> THEN <<>> ELSE Head(ss) \o Concat(Tail(ss))

DownloadFile(file, version, distribution, project) ==
    [file |-> file, version |-> version, distribution |-> distribution,
     project |-> project]

\* A faulty variant of EbCommand.files: every record names the first version
\* of its distribution.
FilesOfFirstVersion(_projects, heap) ==
    Concat([p \in 1..Len(_projects) |->
      LET project == _projects[p] IN
      Concat([d \in 1..Len(heap[project.typed]) |->
        LET distribution == heap[project.typed][d] IN
        Concat([v \in 1..Len(heap[distribution.typed]) |->
          LET version == heap[distribution.typed][v] IN
          [f \in 1..Len(heap[version.typed]) |->
              DownloadFile(heap[version.typed][f], heap[distribution.typed][1],
                           distribution, project)]])])])

\* EbCommand.files: the nested loops over project.distributions,
\* distribution.versions and version.files.
files(_projects, heap) ==
    Concat([p \in 1..Len(_projects) |->
      LET project == _projects[p] IN
      Concat([d \in 1..Len(heap[project.typed]) |->
        LET distribution == heap[project.typed][d] IN
        Concat([v \in 1..Len(heap[distribution.typed]) |->
          LET version == heap[distribution.typed][v] IN
          [f \in 1..Len(heap[version.typed]) |->
              DownloadFile(heap[version.typed][f], version, distribution, project)]])])])

\* The config loop of main: one filter call on the crawled client.
Filter(patterns) ==
    /\ status = "ready"
    /\ LET r == EbCommand_filter(command, patterns, lists) IN
       /\ filtered' = Some(r.projects)
       /\ lists' = r.heap
    /\ listing' = None
    /\ UNCHANGED <<status, stack, command, requests, served, last_response, raised,
                   fresh, _session, other_vars>>

\* files() as main calls it: on the client the latest filter call returned
\* or, when no filter was asked for, on the crawled client.
ListFiles ==
    /\ status = "ready"
    /\ listing = None
    /\ listing' = Some(files(IF filtered = None THEN command ELSE filtered[1], lists))
    /\ UNCHANGED <<crawl_vars, filtered, other_vars>>

\* ------------------------------------------------------------------------
\* Download.

\* description.replace('\\', '-').replace('/', '-')
ReplaceSeparators(description) ==
    [n \in 1..Len(description) |->
        IF description[n] \in {"\\", "/"} THEN "-" ELSE description[n]]

\* EbCommandDownloadFile.__str__: the four descriptions, joined with '-'.
EbCommandDownloadFile_str(download_file) ==
    ReplaceSeparators(download_file.project.description) \o <<"-">>
    \o ReplaceSeparators(download_file.distribution.description) \o <<"-">>
    \o ReplaceSeparators(download_file.version.description) \o <<"-">>
    \o ReplaceSeparators(download_file.file.description)

\* The name download() writes a record under.
FileName(download_file, only) ==
    IF only THEN download_file.file.description
    ELSE EbCommandDownloadFile_str(download_file)

\* The request of a record's url: a GET of the file link.
GetUrl(download_file) ==
    [post |-> FALSE, path |-> download_file.file.sublink.path,
     data |-> download_file.file.sublink.params, session |-> SessionOf]

\* What the server may answer to the request of a file.
DownloadResponses ==
    {[kind |-> k, anchors |-> <<>>] : k \in {"fail", "empty", "bytes", "html"}}

\* download() up to its loop: files() of the client main works with.
download(only) ==
    /\ status = "ready"
    /\ downloading = None
    /\ downloading' = Some(files(IF filtered = None THEN command ELSE filtered[1], lists))
    /\ filename_only' = only
    /\ written' = <<>>
    /\ UNCHANGED <<crawl_vars, client_vars, dedup_vars, size_vars, row_vars>>

\* One pass of the loop of download(): the record is requested; content
\* that is true is written to the file opened under the record's name.
\* The file is opened for bytes, and writing a parsed page to it raises
\* TypeError out of download().
DownloadNext ==
    /\ status = "ready"
    /\ downloading # None
    /\ downloading[1] # <<>>
    /\ \E resp \in DownloadResponses :
        LET download_file == Head(downloading[1])
            content == _request(resp)
        IN
        /\ requests' = Append(requests, GetUrl(download_file))
        /\ _session' = Some(SessionOf)
        /\ last_response' = resp.kind
        /\ IF ~Truthy(content)
           THEN /\ downloading' = Some(Tail(downloading[1]))
                /\ UNCHANGED <<status, raised, written>>
           ELSE IF content.type = "bytes"
           THEN /\ downloading' = Some(Tail(downloading[1]))
                /\ written' = Append(written, FileName(download_file, filename_only))
                /\ UNCHANGED <<status, raised>>
           ELSE /\ status' = "raised"
                /\ raised' = "write"
                /\ downloading' = None
                /\ UNCHANGED written
    /\ UNCHANGED <<stack, lists, command, served, fresh, filename_only,
                   client_vars, dedup_vars, size_vars, row_vars>>

\* _filter_duplicates on a list of sibling entries, and on its own result.
Deduplicate ==
    /\ deduplicated = <<>>
    /\ deduplicated' = <<_filter_duplicates(folders)>>
    /\ UNCHANGED <<crawl_vars, client_vars, folders, download_vars, size_vars, row_vars>>

DeduplicateAgain ==
    /\ Len(deduplicated) = 1
    /\ deduplicated' = Append(deduplicated, _filter_duplicates(deduplicated[1]))
    /\ UNCHANGED <<crawl_vars, client_vars, folders, download_vars, size_vars, row_vars>>

Crawl ==
    \/ _get_projects
    \/ _get_distributions
    \/ _get_versions
    \/ _get_files
    \/ ReturnVersions
    \/ ReturnDistributions
    \/ ReturnProjects

PatternTuples == Patterns \X Patterns \X Patterns \X Patterns

Next ==
    \/ Crawl
    \/ \E patterns \in PatternTuples : Filter(patterns)
    \/ ListFiles

Spec == Init /\ [][Next]_vars

\* Deduplication on its own: any list of up to MaxFolders sibling entries.
FolderLabels == {<<i, d>> : i \in {1, 2}, d \in {<<"a", "b">>, <<"b">>}}
Folder(label, ref) ==
    EbCommandEntry(Sublink(Anchor(_PATH_DEPLOY, [ProjectId |-> <<"1">>], label[2], None)),
                   label[1], ref)

InitDedup ==
    /\ status = "start"
    /\ stack = <<>>
    /\ lists = <<>>
    /\ command = <<>>
    /\ requests = <<>>
    /\ served = 0
    /\ last_response = ""
    /\ raised = ""
    /\ fresh = <<>>
    /\ _session = None
    /\ filtered = None
    /\ listing = None
    /\ \E labels \in SeqsUpTo(FolderLabels, MaxFolders) :
          folders = [n \in 1..Len(labels) |-> Folder(labels[n], n)]
    /\ deduplicated = <<>>
    /\ NoDownload
    /\ NoSize
    /\ NoRow

NextDedup == Deduplicate \/ DeduplicateAgain

SpecDedup == InitDedup /\ [][NextDedup]_vars

\* Download on its own: a crawled client with one project, distribution and
\* version and up to MaxDownloads files, descriptions with and without path
\* separators.
ProjectNames == {<<"a">>, <<"a", "/", "b">>}
FileNames == {<<"a">>, <<"\\", "a">>}

\* The digits of the id of the n-th file.
IdOf(n) == [k \in 1..n |-> "1"]

Linked(path, params, text) == EbCommandSublink(Anchor(path, params, text, GoodRow))

InitDownload ==
    /\ status = "ready"
    /\ stack = <<>>
    /\ \E name \in ProjectNames : \E names \in SeqsUpTo(FileNames, MaxDownloads) :
          /\ command = <<EbCommandEntry(
                            Linked(_PATH_DEPLOY, [ProjectId |-> <<"1">>], name), 1, 1)>>
          /\ lists =
               <<  <<EbCommandEntry(Linked(_PATH_DEPLOY,
                         [Do |-> <<"DISTR">>, Id |-> <<"2">>], <<"b", "\\">>), 2, 2)>>,
                   <<EbCommandEntry(Linked(_PATH_DEPLOY,
                         [Do |-> <<"VERSION">>, Id |-> <<"1">>], <<"b">>), 1, 3)>>,
                   [n \in 1..Len(names) |->
                       EbCommandFile(Linked(_PATH_ATTACHMENT,
                           [Do |-> <<"GET">>, Id |-> IdOf(n)], names[n]),
                           ParseInt(IdOf(n), 0), 3 + n)]  >>
               \o [n \in 1..Len(names) |-> <<>>]
    /\ requests = <<>>
    /\ served = 0
    /\ last_response = ""
    /\ raised = ""
    /\ fresh = lists
    /\ _session = Some(1)
    /\ filtered = None
    /\ listing = None
    /\ folders = <<>>
    /\ deduplicated = <<>>
    /\ NoDownload
    /\ NoSize
    /\ NoRow

\* Size.parse on its own: any string of up to MaxText characters.
SizeChars == {"1", ".", "M", "k", "x", "_", " ", "/"}

NoClient ==
    /\ status = "start"
    /\ stack = <<>>
    /\ lists = <<>>
    /\ command = <<>>
    /\ requests = <<>>
    /\ served = 0
    /\ last_response = ""
    /\ raised = ""
    /\ fresh = <<>>
    /\ _session = None
    /\ filtered = None
    /\ listing = None
NoDedup == folders = <<>> /\ deduplicated = <<>>

InitSize ==
    /\ NoClient
    /\ NoDedup
    /\ NoDownload
    /\ size_text \in SeqsUpTo(SizeChars, MaxText)
    /\ parsed = <<>>
    /\ NoRow

ParseSize ==
    /\ parsed = <<>>
    /\ parsed' = <<Size_parse(size_text)>>
    /\ UNCHANGED <<crawl_vars, client_vars, dedup_vars, download_vars, size_text, row_vars>>

NextSize == ParseSize

SpecSize == InitSize /\ [][NextSize]_vars

\* EbCommandSublink() on its own: a file link in no row, or in a row of up
\* to MaxCells cells, among them timestamps and sizes that differ.
CellPool ==
    {TimeCell, [kind |-> "time", val |-> 2], SizeCell, [kind |-> "size", val |-> 2],
     TextCell}

InitRow ==
    /\ NoClient
    /\ NoDedup
    /\ NoDownload
    /\ NoSize
    /\ \E tr \in {None} \cup {Some(cells) : cells \in SeqsUpTo(CellPool, MaxCells)} :
          row = Some(Anchor(_PATH_ATTACHMENT, [Do |-> <<"GET">>, Id |-> <<"1">>],
                            <<"a">>, tr))
    /\ link = None

BuildSublink ==
    /\ link = None
    /\ link' = Some(EbCommandSublink(row[1]))
    /\ UNCHANGED <<crawl_vars, client_vars, dedup_vars, download_vars, size_vars, row>>

NextRow == BuildSublink

SpecRow == InitRow /\ [][NextRow]_vars

NextDownload ==
    \/ \E only \in BOOLEAN : download(only)
    \/ DownloadNext

SpecDownload == InitDownload /\ [][NextDownload]_vars

\* ------------------------------------------------------------------------
\* Properties.

RECURSIVE TreeOf(_, _, _)
\* The tree below an entry as a value: the children lists followed through
\* the heap (level 0: a project, ..., level 3: a file).
TreeOf(entry, heap, level) ==
    [id |-> entry.id, description |-> entry.description,
     sub |-> IF level = 3 THEN <<>>
             ELSE [n \in 1..Len(heap[entry.subentries]) |->
                      TreeOf(heap[entry.subentries][n], heap, level + 1)]]

\* The trees of a client's projects.
Forest(_projects, heap) ==
    [n \in 1..Len(_projects) |-> TreeOf(_projects[n], heap, 0)]

\* A step that is the call filter(patterns) for some patterns.
FilterStep == \E patterns \in PatternTuples : Filter(patterns)

\* C1: filtering is non-mutating: after any filter call every entry of the
\* original tree has the same children, in the same order, at every level.
FilterLeavesSourceTree ==
    [][FilterStep => Forest(command, lists') = Forest(command, lists)]_vars

\* C2: every filter call on the crawled client returns what the same call
\* returns on a freshly crawled, never filtered client: earlier calls do not
\* change the result of later ones.
FilterAsOnFreshClient ==
    [][\A patterns \in PatternTuples :
          Filter(patterns) =>
              LET r == EbCommand_filter(command, patterns, fresh) IN
              Forest(filtered'[1], lists') = Forest(r.projects, r.heap)]_vars

\* The client main works with: the one the latest filter call returned or,
\* before any filter call, the crawled one.
Client == IF filtered = None THEN command ELSE filtered[1]

\* What filter(patterns) returns on the crawled client as it is now.
Filtered(patterns) == EbCommand_filter(command, patterns, lists)

\* C3: filter returns, in original order, exactly the projects whose own
\* description matches the project pattern and whose recursive filter with
\* the three other patterns is not none, each with its filtered subtree,
\* and the project list of the original client stays as it was.
FilterKeepsMatchingProjects ==
    /\ [](status = "ready" =>
            \A patterns \in PatternTuples :
                LET kept == SelectSeq(command, LAMBDA project :
                        /\ ReMatch(patterns[1], project.description)
                        /\ EbCommandEntry_filter(project, Tail(patterns), lists).entry # None)
                    result == Filtered(patterns)
                IN /\ result.projects = kept
                   /\ \A n \in 1..Len(kept) :
                         LET r == EbCommandEntry_filter(kept[n], Tail(patterns), lists) IN
                         TreeOf(result.projects[n], result.heap, 0)
                             = TreeOf(r.entry[1], r.heap, 0))
    /\ [][status = "ready" => command' = command]_vars

\* A filter call has dropped one project and kept another.
SomeProjectsKept ==
    /\ status = "ready"
    /\ filtered # None
    /\ filtered[1] # <<>>
    /\ Len(filtered[1]) < Len(command)

RECURSIVE KeepTree(_, _)
\* What the recursive filter is to return for a tree and a non-empty list
\* of patterns: the tree with the children kept, none if no child is kept.
\* A child is kept when its description matches the first pattern and, with
\* more patterns left, its own filter with the rest is not none.
KeepTree(tree, patterns) ==
    LET kept == SelectSeq(tree.sub, LAMBDA child :
                    /\ ReMatch(patterns[1], child.description)
                    /\ Len(patterns) > 1 => KeepTree(child, Tail(patterns)) # None)
    IN IF kept = <<>> THEN None
       ELSE Some([tree EXCEPT !.sub =
                [n \in 1..Len(kept) |->
                    IF Len(patterns) > 1 THEN KeepTree(kept[n], Tail(patterns))[1]
                    ELSE kept[n]]])

\* The forest filter is to return for a forest and the four patterns.
KeepForest(forest, patterns) ==
    LET kept == SelectSeq(forest, LAMBDA tree :
                    /\ ReMatch(patterns[1], tree.description)
                    /\ KeepTree(tree, Tail(patterns)) # None)
    IN [n \in 1..Len(kept) |-> KeepTree(kept[n], Tail(patterns))[1]]

\* C4: with a non-empty pattern list the recursive filter keeps a child
\* exactly when its description matches the first pattern from the start of
\* the string and, with more patterns left, its own filter with the rest is
\* not none, and it returns none exactly when no child is kept: a file
\* pattern matching some files of a version keeps the version with those
\* files, one matching no file drops the version from its distribution.
FilterKeepsMatchingChildren ==
    status = "ready" =>
        \A patterns \in PatternTuples :
            Forest(Filtered(patterns).projects, Filtered(patterns).heap)
                = KeepForest(Forest(command, lists), patterns)

\* The files of a forest, as (project, distribution, version, file) ids.
FilePaths(forest) ==
    UNION {UNION {UNION {
        {<<forest[p].id, forest[p].sub[d].id, forest[p].sub[d].sub[v].id,
           forest[p].sub[d].sub[v].sub[f].id>> :
            f \in 1..Len(forest[p].sub[d].sub[v].sub)} :
        v \in 1..Len(forest[p].sub[d].sub)} :
        d \in 1..Len(forest[p].sub)} :
        p \in 1..Len(forest)}

\* A filter call returned a version with some, not all, of the files it
\* was crawled with.
SomeFilesKept ==
    /\ status = "ready"
    /\ filtered # None
    /\ \E p \in FilePaths(Forest(filtered[1], lists)) :
       \E q \in FilePaths(Forest(command, fresh)) :
          /\ q \notin FilePaths(Forest(filtered[1], lists))
          /\ q[1] = p[1] /\ q[2] = p[2] /\ q[3] = p[3]

DefaultPatterns == <<PATTERN_ANY_CHAR, PATTERN_ANY_CHAR, PATTERN_ANY_CHAR, PATTERN_ANY_CHAR>>

\* C5 as stated: filtering a crawled tree with the default patterns returns
\* a structurally equal copy of the full tree.
DefaultFilterReturnsFullTree ==
    [][(filtered = None /\ Filter(DefaultPatterns)) =>
          Forest(filtered'[1], lists') = Forest(command, lists)]_vars

RECURSIVE HasFile(_, _)
\* The tree of the given level has a file in it.
HasFile(tree, level) ==
    level = 3 \/ \E n \in 1..Len(tree.sub) : HasFile(tree.sub[n], level + 1)

RECURSIVE PruneTree(_, _)
\* The tree without the entries that have no file beneath them.
PruneTree(tree, level) ==
    IF level = 3 THEN tree
    ELSE LET kept == SelectSeq(tree.sub, LAMBDA child : HasFile(child, level + 1))
         IN [tree EXCEPT !.sub = [n \in 1..Len(kept) |-> PruneTree(kept[n], level + 1)]]

PruneForest(forest) ==
    LET kept == SelectSeq(forest, LAMBDA tree : HasFile(tree, 0))
    IN [n \in 1..Len(kept) |-> PruneTree(kept[n], 0)]

\* C5, amended: filtering with the default patterns returns the tree with
\* the same ids in the same order and the same files, less the projects,
\* distributions and versions that have no file beneath them.
DefaultFilterReturnsTreeWithFiles ==
    status = "ready" =>
        LET result == Forest(Filtered(DefaultPatterns).projects,
                             Filtered(DefaultPatterns).heap)
        IN /\ result = PruneForest(Forest(command, lists))
           /\ FilePaths(result) = FilePaths(Forest(command, lists))

\* A filter call returned the crawled tree less an entry without files.
FullTreeLessEmptyEntries ==
    /\ status = "ready"
    /\ filtered # None
    /\ filtered[1] # <<>>
    /\ Forest(filtered[1], lists) = PruneForest(Forest(command, fresh))
    /\ Forest(filtered[1], lists) # Forest(command, fresh)

\* The indices of the first entry of every id.
FirstIndices(s) == {i \in 1..Len(s) : \A j \in 1..(i - 1) : s[j].id # s[i].id}

RECURSIVE Pick(_, _, _)
\* The entries of s at the indices in I, from index i on, in order.
Pick(s, I, i) ==
    IF i > Len(s) THEN <<>>
    ELSE (IF i \in I THEN <<s[i]>> ELSE <<>>) \o Pick(s, I, i + 1)

UniqueIds(s) == \A i \in 1..Len(s) : \A j \in 1..Len(s) : i # j => s[i].id # s[j].id

\* C6: _filter_duplicates returns the first entry of every id, in original
\* order: one entry per id, the first description kept; deduplicating its
\* result again changes nothing.
DeduplicationKeepsFirst ==
    /\ Len(deduplicated) >= 1 =>
          /\ deduplicated[1] = Pick(folders, FirstIndices(folders), 1)
          /\ UniqueIds(deduplicated[1])
          /\ {deduplicated[1][n].id : n \in 1..Len(deduplicated[1])}
                 = {folders[n].id : n \in 1..Len(folders)}
    /\ Len(deduplicated) = 2 => deduplicated[2] = deduplicated[1]

\* Two entries of one id and different descriptions were deduplicated,
\* twice, and entries of two ids are left.
DuplicateDropped ==
    /\ Len(deduplicated) = 2
    /\ Len(deduplicated[1]) = 2
    /\ \E i \in 1..Len(folders) : \E j \in (i + 1)..Len(folders) :
          /\ folders[i].id = folders[j].id
          /\ folders[i].description # folders[j].description

\* C7 as stated: a request answered with a status other than 200 or with a
\* body that is not HTML raises no exception out of the constructor.
FailedFetchRaisesNothing ==
    ~(status = "raised" /\ last_response \in {"fail", "bytes"})

\* C8: in every tree a crawl and any filter calls lead to, the ids of the
\* children of one parent, and of the projects, are pairwise distinct.
SiblingIdsDistinct ==
    /\ \A ref \in 1..Len(lists) : UniqueIds(lists[ref])
    /\ UniqueIds(command)
    /\ filtered # None => UniqueIds(filtered[1])

\* The page of the projects held the same link twice, two projects came
\* out of the crawl, and filter was called.
DuplicateLinkCrawled ==
    /\ status = "ready"
    /\ filtered # None
    /\ Len(command) >= 2
    /\ \E i \in 1..Len(requests) : \E j \in (i + 1)..Len(requests) :
          requests[i] = requests[j]

\* The positions of the files of a client's tree: the indices of project,
\* distribution, version and file in the list each is in.
FilePositions(_projects, heap) ==
    UNION {UNION {UNION {
        {<<p, d, v, f>> :
            f \in 1..Len(heap[heap[heap[_projects[p].subentries][d].subentries][v].subentries])} :
        v \in 1..Len(heap[heap[_projects[p].subentries][d].subentries])} :
        d \in 1..Len(heap[_projects[p].subentries])} :
        p \in 1..Len(_projects)}

\* Depth-first order of positions.
Before(a, b) ==
    \E n \in 1..4 : a[n] < b[n] /\ \A m \in 1..(n - 1) : a[m] = b[m]

\* The record of the file at a position, with the ancestors it has there.
RecordAt(_projects, heap, pos) ==
    LET project == _projects[pos[1]]
        distribution == heap[project.subentries][pos[2]]
        version == heap[distribution.subentries][pos[3]]
    IN [file |-> heap[version.subentries][pos[4]], version |-> version,
        distribution |-> distribution, project |-> project]

\* C9: files() returns one record for every file of the client's tree and
\* no others, in depth-first order, each with the ancestors of its file.
FilesListsTreeDepthFirst ==
    listing # None =>
        LET positions == FilePositions(Client, lists) IN
        /\ Len(listing[1]) = Cardinality(positions)
        /\ \A pos \in positions :
              listing[1][1 + Cardinality({q \in positions : Before(q, pos)})]
                  = RecordAt(Client, lists, pos)

\* files() listed a file of a filtered client whose version is not the
\* first of its distribution in the crawled tree.
FilteredFilesListed ==
    /\ listing # None
    /\ filtered # None
    /\ \E n \in 1..Len(listing[1]) :
          fresh[listing[1][n].distribution.subentries][1].id # listing[1][n].version.id

\* C10 as stated: a file link whose row lacks the timestamp cell or the
\* size cell, or that is in no row, yields a File and no error.
FileWithoutCellsRaisesNothing ==
    ~(status = "raised" /\ raised \in {"upload_time", "size"})

\* C11 as stated: download() processes the records in order; a record whose
\* fetch returns a status other than 200 or content that is not binary file
\* content (an HTML page) is skipped without an error and the remaining
\* records are processed, and a record whose content was retrieved is
\* written under the four descriptions joined with '-', path separators
\* replaced by '-', or with filename_only under the file's description.
DownloadSkipsWhatIsNotAFile ==
    [][DownloadNext =>
          LET download_file == Head(downloading[1])
              name == IF filename_only
                      THEN download_file.file.description
                      ELSE ReplaceSeparators(download_file.project.description
                               \o <<"/">> \o download_file.distribution.description
                               \o <<"/">> \o download_file.version.description
                               \o <<"/">> \o download_file.file.description)
          IN /\ status' # "raised"
             /\ downloading' = Some(Tail(downloading[1]))
             /\ last_response' \in {"fail", "html"} => written' = written
             /\ last_response' = "bytes" => written' = Append(written, name)]_vars

\* The length of the longest prefix of t that is a number: digits, or
\* digits, a dot and digits.
NumberLen(t) ==
    LET whole == CHOOSE i \in 0..Len(t) :
                    /\ AllIn(SubSeq(t, 1, i), Digits)
                    /\ i < Len(t) => t[i + 1] \notin Digits
        frac == IF whole = 0 \/ whole + 2 > Len(t) \/ t[whole + 1] # "."
                   \/ t[whole + 2] \notin Digits
                THEN 0
                ELSE CHOOSE j \in 2..(Len(t) - whole) :
                        /\ AllIn(SubSeq(t, whole + 2, whole + j), Digits)
                        /\ whole + j < Len(t) => t[whole + j + 1] \notin Digits
    IN whole + frac

\* The value of a number as the quotient num / den.
NumberValue(number) ==
    LET dots == {n \in 1..Len(number) : number[n] = "."}
        digits == SelectSeq(number, LAMBDA c : c # ".")
    IN [num |-> ParseInt(digits, 0),
        den |-> IF dots = {} THEN 1
                ELSE Power10(Len(number) - (CHOOSE n \in dots : TRUE))]

\* The unit of a letter family.
FamilyUnit(c) ==
    CASE c \in {"B", "b"} -> "BYTE"
      [] c \in {"K", "k"} -> "KILO_BYTE"
      [] c \in {"M", "m"} -> "MEGA_BYTE"
      [] c \in {"G", "g"} -> "GIGA_BYTE"
      [] c \in {"T", "t"} -> "TERRA_BYTE"
      [] OTHER -> "UNKNOWN"

\* C12: for a string that is, whitespace ignored, a number followed by a
\* unit token whose first character is, in either case, one of B, K, M, G,
\* T, Size.parse returns the Size with the unit of that letter and the
\* value of the whole numeric prefix; for every other string it returns
\* none.  The unit token is a run of word characters up to the end.
SizeParseReadsNumberAndUnit ==
    parsed # <<>> =>
        LET t == SelectSeq(size_text, LAMBDA c : c # " ")
            number == SubSeq(t, 1, NumberLen(t))
            token == SubSeq(t, NumberLen(t) + 1, Len(t))
            wellformed == /\ number # <<>>
                          /\ token # <<>>
                          /\ AllIn(token, WordChars)
                          /\ FamilyUnit(token[1]) # "UNKNOWN"
        IN IF wellformed
           THEN /\ parsed[1] # None
                /\ parsed[1][1].unit = FamilyUnit(token[1])
                /\ parsed[1][1].value.num * NumberValue(number).den
                       = NumberValue(number).num * parsed[1][1].value.den
           ELSE parsed[1] = None

\* A string with whitespace in it, a fraction and a unit in lower case was
\* parsed to a Size.
SizeWithFractionParsed ==
    /\ parsed # <<>>
    /\ parsed[1] # None
    /\ parsed[1][1].unit = "KILO_BYTE"
    /\ parsed[1][1].value.den = 10
    /\ Len(size_text) > Len(SelectSeq(size_text, LAMBDA c : c # " "))

\* C13 as stated: deduplication comes before recursing: of the links of one
\* page that survive the conditions, the next-level page is requested once
\* per id.  The entries a _get_* call has collected, and the one it is
\* descending into, are those whose page it has requested.
EachIdCrawledOnce ==
    \A n \in 1..Len(stack) :
        UniqueIds(stack[n].acc \o (IF n < Len(stack) THEN stack[n + 1].owner ELSE <<>>))

\* C14 as stated: a link is accepted only if the whole value of every
\* parameter of the condition set matches its pattern, so the id of an
\* accepted link is all digits and its conversion to an integer in the
\* _get_* methods never fails.
AcceptedIdIsInteger == ~(status = "raised" /\ raised = "int")

\* The value of the first cell of a kind in the row, None if there is none.
FirstCell(tr, kind) ==
    LET cells == IF tr = None THEN <<>>
                 ELSE SelectSeq(tr[1], LAMBDA cell : cell.kind = kind)
    IN IF cells = <<>> THEN None ELSE Some(cells[1].val)

\* C15 as stated: of several cells of a row that match the timestamp
\* pattern, or that parse as a size, the first of each kind in row order
\* gives upload_time and size; later ones change nothing and cells that
\* match neither are ignored.
FirstMatchingCellWins ==
    link # None =>
        /\ link[1].upload_time = FirstCell(row[1].tr, "time")
        /\ link[1].size = FirstCell(row[1].tr, "size")

\* The entries of the crawled client's tree, at every level.
Entries ==
    {command[n] : n \in 1..Len(command)}
    \cup UNION {{lists[ref][n] : n \in 1..Len(lists[ref])} : ref \in 1..Len(lists)}

\* C16 as stated: EbCommandEntry.filter with an empty pattern list returns
\* a copy of the entry with its children unchanged, whatever the number of
\* children, none included.
EmptyPatternsReturnEntry ==
    status = "ready" =>
        \A entry \in Entries :
            LET r == EbCommandEntry_filter(entry, <<>>, lists) IN
            /\ r.entry = Some(entry)
            /\ r.heap = lists

\* The request is a GET of the page listing the children of an entry of
\* the given level (1: a project, 2: a distribution, 3: a version).
IsChildrenGet(request, level) ==
    /\ ~request.post
    /\ request.path = _PATH_DEPLOY
    /\ CASE level = 1 -> DOMAIN request.data = {"ProjectId"}
         [] level = 2 -> DOMAIN request.data = {"Do", "Id"} /\ request.data.Do = "DISTR"
         [] OTHER -> DOMAIN request.data = {"Do", "Id"} /\ request.data.Do = "VERSION"

\* The request is the login POST, sent on the session it created.
IsLoginPost(request) ==
    /\ request.post
    /\ request.path = _PATH_LOGIN
    /\ request.data = [Do |-> "LOGIN"]
    /\ request.session = 1

\* C17 as stated: the login POST is the first and only POST, its response
\* is used for the session only, and everything else, the project list
\* included, is fetched with a later GET: a crawl that knows the project
\* links has sent the GET of the project list.
ProjectListIsFetchedWithGet ==
    /\ requests # <<>> => IsLoginPost(requests[1])
    /\ \A i \in 2..Len(requests) : ~requests[i].post
    /\ status \in {"crawl", "ready"} =>
          \E i \in 2..Len(requests) :
              \A level \in 1..3 : ~IsChildrenGet(requests[i], level)

\* C17, amended: every construction issues exactly one POST, the login, as
\* its first request; the project links are read from the response to it;
\* every later request is a GET on the same session of the page of a
\* project, a distribution or a version, sent one at a time and only after
\* the request whose response held the link of that entry.
LoginIsTheOnlyPost ==
    /\ [](/\ status # "start" => requests # <<>>
          /\ requests # <<>> => IsLoginPost(requests[1])
          /\ \A i \in 2..Len(requests) :
                /\ requests[i].session = requests[1].session
                /\ \E level \in 1..3 :
                      /\ IsChildrenGet(requests[i], level)
                      /\ level > 1 =>
                            \E j \in 2..(i - 1) : IsChildrenGet(requests[j], level - 1))
    /\ [][\/ requests' = requests
          \/ \E request \in {requests'[Len(requests')]} :
                requests' = Append(requests, request)]_vars

\* A construction came to its end after it requested the page of a version.
CrawlRequestedEveryLevel ==
    /\ status = "ready"
    /\ \E i \in 2..Len(requests) : IsChildrenGet(requests[i], 3)

\* The entries that have a typed child list: projects, distributions and
\* versions of the crawled client and of the client filter returned.
TypedEntries ==
    {entry \in Entries \cup {Client[n] : n \in 1..Len(Client)} :
        "typed" \in DOMAIN entry}

\* C18: in every entry of the crawled client and of a client filter
\* returned, after the crawl and any filter calls, the typed child list
\* (distributions, versions, files) that files() reads holds the entries of
\* the subentries list, in the same order, so that files() lists the files
\* of the tree json() and yaml() show.
TypedListIsSubentries ==
    /\ \A entry \in TypedEntries : lists[entry.typed] = lists[entry.subentries]
    /\ listing # None =>
          {<<listing[1][n].project.id, listing[1][n].distribution.id,
             listing[1][n].version.id, listing[1][n].file.id>> :
               n \in 1..Len(listing[1])}
              = FilePaths(Forest(Client, lists))

\* files() listed the files of a client returned by a filter call that
\* took children out of the tree.
FilteredClientListed ==
    /\ listing # None
    /\ listing[1] # <<>>
    /\ filtered # None
    /\ lists # fresh

====
